---- MODULE Spec2Model ----
(***************************************************************************)
(* A model of ai-detection-node/medsigclip_server.py: the startup path     *)
(* (load_model, then app.run), the two pure functions classify_image and   *)
(* detect_regions, and the four Flask handlers, each executed step by step *)
(* by a worker thread.                                                     *)
(*                                                                         *)
(* Scores are fixed-point numbers in tenths (7 stands for 0.7), so that    *)
(* the thresholds 0.7, 0.4 and 0.3 of the source are values a score can    *)
(* take.  An image is a width, a height and a bag of "lesion" pixels; the  *)
(* pretrained network is an opaque deterministic function from what it     *)
(* sees in an image to a probability vector over the label set.            *)
(***************************************************************************)
EXTENDS Integers, Sequences, FiniteSets, TLC

\* ------------------------------------------------------------------ bounds
\* Largest image width and height (pixels).
MaxDim == 3
\* Largest number of lesion pixels in an uploaded image.
MaxLesions == 3
\* Largest number of labels with a non-zero probability (SpecClassify).
MaxNonZero == 3
\* Side of the square images uploaded in the concurrent specification.
ConcDim == 2

\* ------------------------------------------------------- program constants
MEDICAL_CONDITIONS ==
    << "pneumonia", "pleural effusion", "cardiomegaly", "lung nodule",
       "atelectasis", "consolidation", "pulmonary edema", "mass",
       "fracture", "normal anatomy" >>

NumLabels == Len(MEDICAL_CONDITIONS)

\* softmax(dim=1): the probabilities of one image sum to 1.0 (ten tenths).
SoftmaxTotal == 10
\* probs[i] > 0.7
HighThreshold == 7
\* probs[i] > 0.4
MediumThreshold == 4
\* top_result['score'] > 0.3
InclusionThreshold == 3
\* request.form.get('grid_size', 3)
DefaultGridSize == 3

None == << >>

LabelIndex(label) == CHOOSE i \in 1..NumLabels : MEDICAL_CONDITIONS[i] = label

\* ------------------------------------------------------------------ images
\* Pixel (x, y) of an image of width w has index y * w + x.  lesions is a
\* nondecreasing sequence of pixel indexes (a bag of pixels).
Cell(w, x, y) == y * w + x
CellX(w, k) == k % w
CellY(w, k) == k \div w

IsSorted(s) == \A i \in 1..(Len(s) - 1) : s[i] <= s[i + 1]

LesionBags(w, h, most) ==
    UNION { { s \in [1..n -> 0..(w * h - 1)] : IsSorted(s) } : n \in 0..most }

\* The bytes of an upload: a well-formed image file, or bytes that no decoder
\* accepts.  jpeg tells a lossy re-encoding from the bytes the client sent.
ImageFile(w, h, lesions, jpeg) ==
    [valid |-> TRUE, w |-> w, h |-> h, lesions |-> lesions, jpeg |-> jpeg]

CorruptBytes ==
    [valid |-> FALSE, w |-> 0, h |-> 0, lesions |-> << >>, jpeg |-> FALSE]

\* Image.open(io.BytesIO(image_bytes)).convert('RGB')
ImageOpen(image_bytes) ==
    IF image_bytes.valid
    THEN [raised |-> FALSE, error |-> "",
          image |-> [w |-> image_bytes.w, h |-> image_bytes.h,
                     lesions |-> image_bytes.lesions, jpeg |-> image_bytes.jpeg]]
    ELSE [raised |-> TRUE, error |-> "cannot identify image file",
          image |-> [w |-> 0, h |-> 0, lesions |-> << >>, jpeg |-> FALSE]]

\* image.crop((x, y, x + region_width, y + region_height))
InBox(w, k, x, y, rw, rh) ==
    /\ CellX(w, k) >= x /\ CellX(w, k) < x + rw
    /\ CellY(w, k) >= y /\ CellY(w, k) < y + rh

RECURSIVE CropLesions(_, _, _, _, _, _)
CropLesions(lesions, w, x, y, rw, rh) ==
    IF lesions = << >> THEN << >>
    ELSE LET k == Head(lesions)
             rest == CropLesions(Tail(lesions), w, x, y, rw, rh)
         IN IF InBox(w, k, x, y, rw, rh)
            THEN << Cell(rw, CellX(w, k) - x, CellY(w, k) - y) >> \o rest
            ELSE rest

ImageCrop(image, x, y, rw, rh) ==
    [w |-> rw, h |-> rh, jpeg |-> image.jpeg,
     lesions |-> CropLesions(image.lesions, image.w, x, y, rw, rh)]

\* region.save(buffer, format='JPEG'); buffer.getvalue().  The encoder refuses
\* an image without pixels.
SaveJpeg(region) ==
    IF region.w <= 0 \/ region.h <= 0
    THEN [raised |-> TRUE, error |-> "cannot write empty image as JPEG",
          bytes |-> CorruptBytes]
    ELSE [raised |-> FALSE, error |-> "",
          bytes |-> ImageFile(region.w, region.h, region.lesions, TRUE)]

\* ------------------------------------------------------- the loaded network
\* What the network sees in an image: how many lesion pixels, and whether the
\* pixels went through the JPEG encoder.
Features == [n : 0..MaxLesions, jpeg : BOOLEAN]

FeatureOf(image) ==
    [n |-> IF Len(image.lesions) > MaxLesions THEN MaxLesions ELSE Len(image.lesions),
     jpeg |-> image.jpeg]

Distribution(f) == [i \in 1..NumLabels |-> IF i \in DOMAIN f THEN f[i] ELSE 0]

ProbsNormal == Distribution(10 :> 8 @@ 1 :> 2)
ProbsSuspect == Distribution(4 :> 4 @@ 10 :> 6)
ProbsTie == Distribution(8 :> 5 @@ 10 :> 5)
ProbsBorder == Distribution(1 :> 3 @@ 2 :> 3 @@ 3 :> 2 @@ 4 :> 2)
ProbsAbnormal == Distribution(9 :> 7 @@ 1 :> 2 @@ 10 :> 1)

\* CLIPModel.from_pretrained(model_name): the checkpoint's function.
PretrainedWeights ==
    [ft \in Features |->
        IF ft.n = 0 THEN ProbsNormal
        ELSE IF ft.n = 1 THEN (IF ft.jpeg THEN ProbsTie ELSE ProbsSuspect)
        ELSE IF ft.n = 2 THEN ProbsBorder
        ELSE ProbsAbnormal]

\* processor(text=..., images=image, ...); model(**inputs);
\* logits_per_image.softmax(dim=1)[0].  fault is a runtime failure of this
\* invocation (out of memory, a failing kernel).
Inference(proc, mdl, image, fault) ==
    IF proc = "None" THEN [raised |-> TRUE, error |-> "'NoneType' object is not callable", probs |-> << >>]
    ELSE IF mdl = None THEN [raised |-> TRUE, error |-> "'NoneType' object is not callable", probs |-> << >>]
    ELSE IF fault THEN [raised |-> TRUE, error |-> "model runtime failure", probs |-> << >>]
    ELSE [raised |-> FALSE, error |-> "", probs |-> mdl[FeatureOf(image)]]

\* ---------------------------------------------------------- classify_image
ConfidenceBucketInclusive(p) ==
    IF p >= HighThreshold THEN "high" ELSE IF p > MediumThreshold THEN "medium" ELSE "low"

ConfidenceBucketLowInclusive(p) ==
    IF p > HighThreshold THEN "high" ELSE IF p >= MediumThreshold THEN "medium" ELSE "low"

\* 'high' if probs[i] > 0.7 else 'medium' if probs[i] > 0.4 else 'low'
ConfidenceBucket(p) ==
    IF p > HighThreshold THEN "high" ELSE IF p > MediumThreshold THEN "medium" ELSE "low"

\* for i, condition in enumerate(MEDICAL_CONDITIONS): results.append({...})
BuildResults(probs) ==
    [i \in 1..NumLabels |->
        [label |-> MEDICAL_CONDITIONS[i], score |-> probs[i],
         confidence |-> ConfidenceBucket(probs[i])]]

\* list.sort(key=..., reverse=True) is stable: entries with equal keys keep
\* their order.  An entry is inserted behind every entry whose score is at
\* least its own.
RECURSIVE InsertDescending(_, _)
InsertDescending(sorted, e) ==
    IF sorted = << >> THEN << e >>
    ELSE IF Head(sorted).score >= e.score
         THEN << Head(sorted) >> \o InsertDescending(Tail(sorted), e)
         ELSE << e >> \o sorted

RECURSIVE InsertDescendingFirst(_, _)
InsertDescendingFirst(sorted, e) ==
    IF sorted = << >> THEN << e >>
    ELSE IF Head(sorted).score > e.score
         THEN << Head(sorted) >> \o InsertDescendingFirst(Tail(sorted), e)
         ELSE << e >> \o sorted

RECURSIVE SortUnstable(_, _)
SortUnstable(results, sorted) ==
    IF results = << >> THEN sorted
    ELSE SortUnstable(Tail(results), InsertDescendingFirst(sorted, Head(results)))

RECURSIVE SortInto(_, _)
SortInto(results, sorted) ==
    IF results = << >> THEN sorted
    ELSE SortInto(Tail(results), InsertDescending(sorted, Head(results)))

SortByScoreUnstable(results) == SortUnstable(results, << >>)

\* results.sort(key=lambda x: x['score'], reverse=True)
SortByScore(results) == SortInto(results, << >>)

\* classify_image(image_bytes): the sorted results, or the exception
\* "Classification error: <message>".
classify_image(proc, mdl, image_bytes, fault) ==
    LET opened == ImageOpen(image_bytes)
        out == Inference(proc, mdl, opened.image, fault)
    IN IF opened.raised
       THEN [raised |-> TRUE, error |-> "Classification error: " \o opened.error,
             results |-> << >>, inferences |-> 0]
       ELSE IF out.raised
       THEN [raised |-> TRUE, error |-> "Classification error: " \o out.error,
             results |-> << >>, inferences |-> 1]
       ELSE [raised |-> FALSE, error |-> "",
             results |-> SortByScore(BuildResults(out.probs)), inferences |-> 1]

\* ---------------------------------------------------------------- state
VARIABLES
    main_pc,      \* position of the __main__ block
    model,        \* global model: None, or the loaded network
    processor,    \* global processor: "None" or "CLIPProcessor"
    load_calls,   \* how many times load_model has been entered
    load_result,  \* what load_model returned
    frames,       \* per worker thread: the request it handles and its locals
    had_failure   \* some request has already been answered with status 500

vars == << main_pc, model, processor, load_calls, load_result, frames, had_failure >>

\* The threads of the threaded Flask server that handle requests.
Workers == { "w1", "w2" }

NoResponse ==
    [status |-> 0, keys |-> {}, success |-> FALSE, error |-> "",
     results |-> << >>, detections |-> << >>, grid_size |-> 0,
     regions_processed |-> 0, model_loaded |-> FALSE]

\* A request: the route, request.files (has_image, upload) and request.form
\* (grid_form: no grid_size field, or the text of the field).
Request(route, has_image, upload, grid_form) ==
    [route |-> route, has_image |-> has_image, upload |-> upload,
     grid_form |-> grid_form]

\* pc is the worker's position; crops, decodes, inferences and fault_at record
\* what the handler has done so far (the boxes it cropped, how many uploads it
\* decoded, how often it invoked the network, which invocation failed).
IdleFrame ==
    [pc |-> "idle", route |-> "", has_image |-> FALSE, upload |-> CorruptBytes,
     grid_form |-> << >>, image_bytes |-> CorruptBytes, grid_size |-> 0,
     width |-> 0, height |-> 0, region_width |-> 0, region_height |-> 0,
     row |-> 0, col |-> 0, detections |-> << >>, crops |-> << >>,
     decodes |-> 0, inferences |-> 0, fault_at |-> 0, response |-> NoResponse]

NewFrame(req) ==
    [IdleFrame EXCEPT !.pc = req.route, !.route = req.route,
                      !.has_image = req.has_image, !.upload = req.upload,
                      !.grid_form = req.grid_form]

Respond(f, resp) == [f EXCEPT !.pc = "done", !.response = resp]

\* jsonify({'error': 'No image provided'}), 400
BadRequest ==
    [NoResponse EXCEPT !.status = 400, !.keys = { "error" },
                       !.error = "No image provided"]

\* jsonify({'success': False, 'error': str(e)}), 500
ServerError(message) ==
    [NoResponse EXCEPT !.status = 500, !.keys = { "success", "error" },
                       !.success = FALSE, !.error = message]

\* ------------------------------------------------------------ /health, /test
health(f, mdl) ==
    Respond(f, [NoResponse EXCEPT !.status = 200,
                    !.keys = { "status", "service", "model_loaded", "version" },
                    !.model_loaded = (mdl # None)])

test(f, mdl) ==
    Respond(f, [NoResponse EXCEPT !.status = 200,
                    !.keys = { "success", "message", "model_loaded" },
                    !.success = TRUE, !.model_loaded = (mdl # None)])

\* ----------------------------------------------------------------- /classify
\* if 'image' not in request.files: return 400; image_bytes = image_file.read()
ClassifyEntry(f) ==
    IF ~f.has_image THEN Respond(f, BadRequest)
    ELSE [f EXCEPT !.pc = "classify_call", !.image_bytes = f.upload]

\* results = classify_image(image_bytes); the 200 answer, or the handler's
\* except branch.
ClassifyCall(f, proc, mdl, fault) ==
    LET r == classify_image(proc, mdl, f.image_bytes, fault)
        g == [f EXCEPT !.decodes = @ + 1, !.inferences = @ + r.inferences,
                       !.fault_at = IF r.inferences = 1 /\ fault THEN 1 ELSE 0]
    IN IF r.raised THEN Respond(g, ServerError(r.error))
       ELSE Respond(g, [NoResponse EXCEPT !.status = 200,
                            !.keys = { "success", "results", "model" },
                            !.success = TRUE, !.results = r.results])

\* ------------------------------------------------------------------- /detect
DetectEntryParseFirst(f) ==
    [f EXCEPT !.pc = "detect_parse", !.image_bytes = f.upload]

\* if 'image' not in request.files: return 400; image_bytes = image_file.read()
DetectEntry(f) ==
    IF ~f.has_image THEN Respond(f, BadRequest)
    ELSE [f EXCEPT !.pc = "detect_parse", !.image_bytes = f.upload]

\* int(text): optional surrounding blanks, an optional sign, decimal digits.
IntLiterals ==
    "-1" :> (-1) @@ "0" :> 0 @@ "1" :> 1 @@ "2" :> 2 @@ " 2" :> 2 @@ "3" :> 3

ParseInt(text) ==
    IF text \in DOMAIN IntLiterals
    THEN [raised |-> FALSE, error |-> "", value |-> IntLiterals[text]]
    ELSE [raised |-> TRUE, value |-> 0,
          error |-> "invalid literal for int() with base 10: '" \o text \o "'"]

\* grid_size = int(request.form.get('grid_size', 3)); a ValueError lands in the
\* handler's except branch.
DetectParseGrid(f) ==
    LET parsed == IF f.grid_form = << >>
                  THEN [raised |-> FALSE, error |-> "", value |-> DefaultGridSize]
                  ELSE ParseInt(f.grid_form[1])
    IN IF parsed.raised THEN Respond(f, ServerError(parsed.error))
       ELSE [f EXCEPT !.pc = "detect_open", !.grid_size = parsed.value]

\* Python's a // b for a >= 0 and b # 0 (floor of the quotient).
FloorDiv(a, b) == IF b > 0 THEN a \div b ELSE -((a + (-b) - 1) \div (-b))

RegionSizeCeiling(extent, grid_size) ==
    IF grid_size > 0 THEN (extent + grid_size - 1) \div grid_size
    ELSE FloorDiv(extent, grid_size)

\* region_width = width // grid_size; region_height = height // grid_size
RegionSize(extent, grid_size) == FloorDiv(extent, grid_size)

DetectRaisePartial(f, message) ==
    Respond(f, [NoResponse EXCEPT !.status = 200,
                    !.keys = { "success", "detections", "metadata" },
                    !.success = TRUE, !.detections = f.detections,
                    !.grid_size = f.grid_size,
                    !.regions_processed = f.grid_size * f.grid_size])

\* raise Exception(f"Detection error: {str(e)}"), caught by the handler.
DetectRaise(f, message) == Respond(f, ServerError("Detection error: " \o message))

\* detect_regions up to the loop: decode the upload, size the regions.
DetectOpen(f) ==
    LET opened == ImageOpen(f.image_bytes)
        g == [f EXCEPT !.decodes = @ + 1]
    IN IF opened.raised THEN DetectRaise(g, opened.error)
       ELSE IF f.grid_size = 0
       THEN DetectRaise([g EXCEPT !.width = opened.image.w, !.height = opened.image.h],
                        "integer division or modulo by zero")
       ELSE [g EXCEPT !.pc = "detect_loop",
                      !.width = opened.image.w, !.height = opened.image.h,
                      !.region_width = RegionSize(opened.image.w, f.grid_size),
                      !.region_height = RegionSize(opened.image.h, f.grid_size),
                      !.detections = << >>, !.row = 0, !.col = 0]

QualifiesInclusive(top_result) ==
    top_result.label # "normal anatomy" /\ top_result.score >= InclusionThreshold

\* top_result['label'] != 'normal anatomy' and top_result['score'] > 0.3
Qualifies(top_result) ==
    top_result.label # "normal anatomy" /\ top_result.score > InclusionThreshold

Detection(x, y, region_width, region_height, top_result, row, col) ==
    [x |-> x, y |-> y, width |-> region_width, height |-> region_height,
     label |-> top_result.label, confidence |-> top_result.score,
     location |-> << row, col >>,
     description |-> << top_result.label, row, col >>]

\* One pass of the body of "for row ...: for col ...:".
DetectTile(f, proc, mdl, fault) ==
    LET x == f.col * f.region_width
        y == f.row * f.region_height
        region == ImageCrop(ImageOpen(f.image_bytes).image, x, y,
                            f.region_width, f.region_height)
        saved == SaveJpeg(region)
        r == classify_image(proc, mdl, saved.bytes, fault)
        cropped == [f EXCEPT !.crops = Append(@, [x |-> x, y |-> y,
                                                  w |-> f.region_width,
                                                  h |-> f.region_height])]
        called == [cropped EXCEPT !.inferences = @ + r.inferences,
                       !.fault_at = IF r.inferences = 1 /\ fault
                                    THEN f.inferences + 1 ELSE 0]
        top_result == r.results[1]
        last == f.col + 1 >= f.grid_size
    IN IF saved.raised THEN DetectRaise(cropped, saved.error)
       ELSE IF r.raised THEN DetectRaise(called, r.error)
       ELSE [called EXCEPT
                !.detections =
                    IF Qualifies(top_result)
                    THEN Append(@, Detection(x, y, f.region_width, f.region_height,
                                             top_result, f.row, f.col))
                    ELSE @,
                !.row = IF last THEN f.row + 1 ELSE f.row,
                !.col = IF last THEN 0 ELSE f.col + 1]

\* return detections; the handler's 200 answer with its metadata.
DetectReturn(f) ==
    Respond(f, [NoResponse EXCEPT !.status = 200,
                    !.keys = { "success", "detections", "metadata" },
                    !.success = TRUE, !.detections = f.detections,
                    !.grid_size = f.grid_size,
                    !.regions_processed = f.grid_size * f.grid_size])

\* ----------------------------------------------------------------- startup
\* if load_model(): app.run(...) else: print("Failed to start server ...")
MainAfterLoadAlways(loaded) == "serving"

MainAfterLoad(loaded) == IF loaded THEN "serving" ELSE "exited"

Init ==
    /\ main_pc = "start"
    /\ model = None
    /\ processor = "None"
    /\ load_calls = 0
    /\ load_result = FALSE
    /\ frames = [w \in Workers |-> IdleFrame]
    /\ had_failure = FALSE

\* __main__ calls load_model().
StartMain ==
    /\ main_pc = "start"
    /\ main_pc' = "load_processor"
    /\ load_calls' = load_calls + 1
    /\ UNCHANGED << model, processor, load_result, frames, had_failure >>

\* processor = CLIPProcessor.from_pretrained(model_name), or the except branch.
FromPretrainedProcessor ==
    /\ main_pc = "load_processor"
    /\ \E ok \in BOOLEAN :
          IF ok
          THEN /\ processor' = "CLIPProcessor"
               /\ main_pc' = "load_model"
               /\ UNCHANGED load_result
          ELSE /\ load_result' = FALSE
               /\ main_pc' = "load_returned"
               /\ UNCHANGED processor
    /\ UNCHANGED << model, load_calls, frames, had_failure >>

\* model = CLIPModel.from_pretrained(model_name); model.eval(); return True,
\* or the except branch.
FromPretrainedModel ==
    /\ main_pc = "load_model"
    /\ \E ok \in BOOLEAN :
          IF ok
          THEN /\ model' = PretrainedWeights
               /\ load_result' = TRUE
          ELSE /\ load_result' = FALSE
               /\ UNCHANGED model
    /\ main_pc' = "load_returned"
    /\ UNCHANGED << processor, load_calls, frames, had_failure >>

\* The branch on load_model()'s result: app.run(...), or fall off the script.
MainBranch ==
    /\ main_pc = "load_returned"
    /\ main_pc' = MainAfterLoad(load_result)
    /\ UNCHANGED << model, processor, load_calls, load_result, frames, had_failure >>

Startup == StartMain \/ FromPretrainedProcessor \/ FromPretrainedModel \/ MainBranch

\* ---------------------------------------------------------------- requests
StoreFrameShared(fs, w, f) ==
    [v \in DOMAIN fs |->
        IF v = w THEN f ELSE [fs[v] EXCEPT !.detections = f.detections]]

\* Every name a handler assigns is a local of that call: a step of worker w
\* changes w's frame and nothing else.
StoreFrame(fs, w, f) == [fs EXCEPT ![w] = f]

Globals == << main_pc, model, processor, load_calls, load_result >>

Uploads(dims, most) ==
    { CorruptBytes } \cup
    UNION { { ImageFile(d[1], d[2], l, FALSE) : l \in LesionBags(d[1], d[2], most) } :
            d \in dims \X dims }

GridForms == { << >>, << "abc" >>, << "-1" >>, << "0" >>, << "1" >>, << " 2" >> }

Requests(uploads, forms) ==
    { Request("health", FALSE, CorruptBytes, << >>),
      Request("test", FALSE, CorruptBytes, << >>),
      Request("classify", FALSE, CorruptBytes, << >>) }
    \cup { Request("classify", TRUE, u, << >>) : u \in uploads }
    \cup { Request("detect", FALSE, CorruptBytes, g) : g \in forms }
    \cup { Request("detect", TRUE, u, g) : u \in uploads, g \in forms }

\* Every request over images of at most dim x dim pixels and most lesions.
RequestsUpTo(dim, most) == Requests(Uploads(1..dim, most), GridForms)

\* The listener accepts a request and hands it to an idle worker; alone means
\* that requests are served one at a time.
Arrive(w, reqs, alone) ==
    /\ main_pc = "serving"
    /\ frames[w].pc = "idle"
    /\ alone => \A v \in Workers : frames[v].pc = "idle"
    /\ \E req \in reqs : frames' = StoreFrame(frames, w, NewFrame(req))
    /\ UNCHANGED << Globals, had_failure >>

Health(w) ==
    /\ frames[w].pc = "health"
    /\ frames' = StoreFrame(frames, w, health(frames[w], model))
    /\ UNCHANGED << Globals, had_failure >>

Test(w) ==
    /\ frames[w].pc = "test"
    /\ frames' = StoreFrame(frames, w, test(frames[w], model))
    /\ UNCHANGED << Globals, had_failure >>

ClassifyCheck(w) ==
    /\ frames[w].pc = "classify"
    /\ frames' = StoreFrame(frames, w, ClassifyEntry(frames[w]))
    /\ UNCHANGED << Globals, had_failure >>

Classify(w) ==
    /\ frames[w].pc = "classify_call"
    /\ \E fault \in BOOLEAN :
          frames' = StoreFrame(frames, w, ClassifyCall(frames[w], processor, model, fault))
    /\ UNCHANGED << Globals, had_failure >>

DetectCheck(w) ==
    /\ frames[w].pc = "detect"
    /\ frames' = StoreFrame(frames, w, DetectEntry(frames[w]))
    /\ UNCHANGED << Globals, had_failure >>

DetectGrid(w) ==
    /\ frames[w].pc = "detect_parse"
    /\ frames' = StoreFrame(frames, w, DetectParseGrid(frames[w]))
    /\ UNCHANGED << Globals, had_failure >>

DetectBegin(w) ==
    /\ frames[w].pc = "detect_open"
    /\ frames' = StoreFrame(frames, w, DetectOpen(frames[w]))
    /\ UNCHANGED << Globals, had_failure >>

\* range(grid_size) still has a row to visit.
DetectRegion(w) ==
    /\ frames[w].pc = "detect_loop"
    /\ frames[w].row < frames[w].grid_size
    /\ \E fault \in BOOLEAN :
          frames' = StoreFrame(frames, w, DetectTile(frames[w], processor, model, fault))
    /\ UNCHANGED << Globals, had_failure >>

\* Both loops are exhausted (at once when grid_size is negative).
DetectEnd(w) ==
    /\ frames[w].pc = "detect_loop"
    /\ frames[w].row >= frames[w].grid_size
    /\ frames' = StoreFrame(frames, w, DetectReturn(frames[w]))
    /\ UNCHANGED << Globals, had_failure >>

\* Flask sends the response; the call's locals are gone.
SendResponse(w) ==
    /\ frames[w].pc = "done"
    /\ frames' = StoreFrame(frames, w, IdleFrame)
    /\ had_failure' = (had_failure \/ frames[w].response.status = 500)
    /\ UNCHANGED Globals

Handle(w) ==
    \/ Health(w) \/ Test(w)
    \/ ClassifyCheck(w) \/ Classify(w)
    \/ DetectCheck(w) \/ DetectGrid(w) \/ DetectBegin(w)
    \/ DetectRegion(w) \/ DetectEnd(w)
    \/ SendResponse(w)

\* ----------------------------------------------------------- specifications
\* The server from process start, serving one request at a time.
Next ==
    \/ Startup
    \/ Arrive("w1", RequestsUpTo(MaxDim, MaxLesions), TRUE)
    \/ Handle("w1")

Spec == Init /\ [][Next]_vars

\* The server from process start, its workers serving requests concurrently.
\* Uploads of the concurrent runs: undecodable bytes, and the square images
\* with one lesion pixel.
ConcUploads(side) == { u \in Uploads({ side }, 1) : ~u.valid \/ Len(u.lesions) = 1 }

ConcRequests(side) == Requests(ConcUploads(side), { << >>, << "abc" >>, << " 2" >> })

NextConc ==
    \/ Startup
    \/ \E w \in Workers : Arrive(w, ConcRequests(ConcDim), FALSE)
    \/ \E w \in Workers : Handle(w)

SpecConc == Init /\ [][NextConc]_vars

\* classify_image as a pure function of the network's output: the server is
\* up with a checkpoint that answers the uploaded image with an arbitrary
\* probability vector.
RECURSIVE SumOver(_, _)
SumOver(f, S) ==
    IF S = {} THEN 0
    ELSE LET i == CHOOSE j \in S : TRUE IN f[i] + SumOver(f, S \ { i })

\* The probability vectors with at most `most` non-zero labels.
ProbVectors(most) ==
    UNION { { Distribution(f) :
                f \in { g \in [S -> 1..(SoftmaxTotal - Cardinality(S) + 1)] :
                            SumOver(g, S) = SoftmaxTotal } } :
            S \in { T \in SUBSET (1..NumLabels) : Cardinality(T) \in 1..most } }

ClassifyRequests ==
    { Request("classify", FALSE, CorruptBytes, << >>),
      Request("classify", TRUE, CorruptBytes, << >>),
      Request("classify", TRUE, ImageFile(1, 1, << >>, FALSE), << >>) }

InitClassify ==
    /\ main_pc = "serving"
    /\ \E p \in ProbVectors(MaxNonZero) : model = [ft \in Features |-> p]
    /\ processor = "CLIPProcessor"
    /\ load_calls = 1
    /\ load_result = TRUE
    /\ frames = [w \in Workers |-> IdleFrame]
    /\ had_failure = FALSE

NextClassify ==
    \/ Arrive("w1", ClassifyRequests, TRUE)
    \/ ClassifyCheck("w1")
    \/ Classify("w1")

SpecClassify == InitClassify /\ [][NextClassify]_vars

\* ------------------------------------------------------------------- claims
Done(w) == frames[w].pc = "done"

ClassifiedOk(w) ==
    /\ Done(w) /\ frames[w].route = "classify" /\ frames[w].response.status = 200

\* The probability vector the loaded network gives the upload of worker w.
UploadProbs(w) == model[FeatureOf(ImageOpen(frames[w].upload).image)]

\* C1: for every decodable image a classification succeeds and returns one
\* entry per label of the ten-label set, each label once with the score the
\* network gave it, ordered by score descending, entries of equal score in
\* label-set order.
C1_RankedResults ==
    \A w \in Workers :
        /\ ( /\ Done(w) /\ frames[w].route = "classify" /\ frames[w].has_image
             /\ frames[w].upload.valid /\ frames[w].fault_at = 0 )
           => frames[w].response.status = 200
        /\ ClassifiedOk(w) =>
            LET res == frames[w].response.results IN
            /\ Len(res) = NumLabels
            /\ NumLabels = 10
            /\ \A i \in 1..NumLabels :
                  /\ Cardinality({ k \in 1..Len(res) : res[k].label = MEDICAL_CONDITIONS[i] }) = 1
                  /\ \A k \in 1..Len(res) :
                        res[k].label = MEDICAL_CONDITIONS[i] => res[k].score = UploadProbs(w)[i]
            /\ \A k \in 1..(Len(res) - 1) : res[k].score >= res[k + 1].score
            /\ \A k, j \in 1..Len(res) :
                  (k < j /\ res[k].score = res[j].score)
                      => LabelIndex(res[k].label) < LabelIndex(res[j].label)

\* A classification whose two best labels tie with a non-zero score and are
\* not neighbours in the label set.
C1_Witness ==
    \E w \in Workers :
        /\ ClassifiedOk(w)
        /\ LET res == frames[w].response.results IN
           /\ res[1].score = res[2].score /\ res[1].score > 0
           /\ LabelIndex(res[2].label) > LabelIndex(res[1].label) + 1

\* C2: the confidence of an entry depends on its score alone: "high" exactly
\* when score > 0.7, "medium" exactly when 0.4 < score <= 0.7, "low" exactly
\* when score <= 0.4, and every score in [0, 1] gets one of the three.
C2_BucketByScore ==
    \A w \in Workers :
        ClassifiedOk(w) =>
            LET res == frames[w].response.results IN
            \A k \in 1..Len(res) :
                /\ res[k].score \in 0..10
                /\ res[k].confidence \in { "high", "medium", "low" }
                /\ res[k].confidence = "high" <=> res[k].score > 7
                /\ res[k].confidence = "medium" <=> (res[k].score > 4 /\ res[k].score <= 7)
                /\ res[k].confidence = "low" <=> res[k].score <= 4
                /\ \A j \in 1..Len(res) :
                      res[j].score = res[k].score => res[j].confidence = res[k].confidence

\* One classification holding a "medium" entry at 0.7 and "low" entries.
C2_Witness ==
    \E w \in Workers :
        /\ ClassifiedOk(w)
        /\ LET res == frames[w].response.results IN
           /\ \E k \in 1..Len(res) : res[k].score = 7 /\ res[k].confidence = "medium"
           /\ \E k \in 1..Len(res) : res[k].score = 3 /\ res[k].confidence = "low"

\* C3 as stated: a score of exactly 0.7 is "medium", a score of exactly 0.4
\* is "medium", and a score just above 0.7 is "high".
C3_BoundariesMedium ==
    \A w \in Workers :
        ClassifiedOk(w) =>
            LET res == frames[w].response.results IN
            \A k \in 1..Len(res) :
                /\ res[k].score = 7 => res[k].confidence = "medium"
                /\ res[k].score = 4 => res[k].confidence = "medium"
                /\ res[k].score = 8 => res[k].confidence = "high"

\* C3 as amended: a score of exactly 0.7 is "medium" and a score of exactly
\* 0.4 is "low"; a score just above 0.7 is "high" and a score just above 0.4
\* is "medium".
C3_BoundariesStrict ==
    \A w \in Workers :
        ClassifiedOk(w) =>
            LET res == frames[w].response.results IN
            \A k \in 1..Len(res) :
                /\ res[k].score = 7 => res[k].confidence = "medium"
                /\ res[k].score = 4 => res[k].confidence = "low"
                /\ res[k].score = 8 => res[k].confidence = "high"
                /\ res[k].score = 5 => res[k].confidence = "medium"

\* A classification with two entries at exactly 0.4.
C3_Witness ==
    \E w \in Workers :
        /\ ClassifiedOk(w)
        /\ LET res == frames[w].response.results IN
           /\ res[1].score = 4 /\ res[2].score = 4
           /\ res[1].confidence = "low"

DetectedOk(w) ==
    /\ Done(w) /\ frames[w].route = "detect" /\ frames[w].response.status = 200

\* The detections of a raster scan (row 0 left to right, then row 1, ...) of
\* the g x g tiles of an upload, from tile k on.
RECURSIVE RasterScan(_, _, _, _)
RasterScan(upload, g, k, found) ==
    IF k >= g * g THEN found
    ELSE LET row == k \div g
             col == k % g
             rw == upload.w \div g
             rh == upload.h \div g
             tile == ImageCrop(ImageOpen(upload).image, col * rw, row * rh, rw, rh)
             top == classify_image("CLIPProcessor", PretrainedWeights,
                                   SaveJpeg(tile).bytes, FALSE).results[1]
         IN RasterScan(upload, g, k + 1,
                IF top.label # "normal anatomy" /\ top.score > 3
                THEN Append(found,
                        [x |-> col * rw, y |-> row * rh, width |-> rw, height |-> rh,
                         label |-> top.label, confidence |-> top.score,
                         location |-> << row, col >>,
                         description |-> << top.label, row, col >>])
                ELSE found)

\* C4: a successful detection with grid size g >= 1 classifies all g * g
\* tiles and returns, in raster order, one detection for every tile whose top
\* label is not "normal anatomy" and whose top score exceeds 0.3, carrying the
\* tile's x, y, width, height, (row, col), label and score, and nothing else.
C4_RasterDetections ==
    \A w \in Workers :
        (DetectedOk(w) /\ frames[w].grid_size >= 1) =>
            LET g == frames[w].grid_size IN
            /\ frames[w].inferences = g * g
            /\ Len(frames[w].crops) = g * g
            /\ frames[w].response.detections = RasterScan(frames[w].upload, g, 0, << >>)

\* A successful detection over at least four tiles in which a tile of the
\* first row is skipped and tiles of a later row are reported.
C4_Witness ==
    \E w \in Workers :
        /\ DetectedOk(w) /\ frames[w].grid_size >= 2
        /\ LET d == frames[w].response.detections IN
           /\ Len(d) >= 2
           /\ Len(d) < frames[w].grid_size * frames[w].grid_size
           /\ d[1].location[1] >= 1

Pixels(box) ==
    { << x, y >> : x \in box.x..(box.x + box.w - 1), y \in box.y..(box.y + box.h - 1) }

\* C5: with grid size g >= 1 on a W x H image the tiles are the g * g
\* rectangles with origin (col * (W // g), row * (H // g)) and size
\* (W // g, H // g); each lies inside the image, no two share a pixel, and the
\* W mod g rightmost columns and H mod g bottom rows are in no tile.
C5_TileGeometry ==
    \A w \in Workers :
        (frames[w].route = "detect" /\ frames[w].grid_size >= 1) =>
            LET g == frames[w].grid_size
                W == frames[w].upload.w
                H == frames[w].upload.h
                crops == frames[w].crops
            IN
            /\ Len(crops) <= g * g
            /\ \A k \in 1..Len(crops) :
                  /\ crops[k] = [x |-> ((k - 1) % g) * (W \div g),
                                 y |-> ((k - 1) \div g) * (H \div g),
                                 w |-> W \div g, h |-> H \div g]
                  /\ crops[k].x >= 0 /\ crops[k].x + crops[k].w <= W
                  /\ crops[k].y >= 0 /\ crops[k].y + crops[k].h <= H
                  /\ \A j \in 1..Len(crops) :
                        j # k => Pixels(crops[j]) \cap Pixels(crops[k]) = {}
            /\ DetectedOk(w) =>
                  /\ Len(crops) = g * g
                  /\ UNION { Pixels(crops[k]) : k \in 1..Len(crops) }
                        = (0..(W - (W % g) - 1)) \X (0..(H - (H % g) - 1))

\* A successful 2 x 2 detection on an image of width 3 and height 3: one
\* column and one row of pixels are left over.
C5_Witness ==
    \E w \in Workers :
        /\ DetectedOk(w) /\ frames[w].grid_size = 2
        /\ frames[w].upload.w = 3 /\ frames[w].upload.h = 3
        /\ Len(frames[w].crops) = 4

\* C6: a /classify or /detect request without an image file is answered with
\* status 400 and an error message, whatever its grid_size field; nothing is
\* decoded, the network is not invoked, and the server stays up.
C6_MissingImage ==
    \A w \in Workers :
        ( /\ Done(w) /\ frames[w].route \in { "classify", "detect" }
          /\ ~frames[w].has_image ) =>
            /\ frames[w].response.status = 400
            /\ frames[w].response.keys = { "error" }
            /\ frames[w].response.error = "No image provided"
            /\ frames[w].decodes = 0
            /\ frames[w].inferences = 0
            /\ frames[w].crops = << >>
            /\ main_pc = "serving"
            /\ ENABLED SendResponse(w)

\* A /detect request without an image and with a non-numeric grid_size,
\* answered 400.
C6_Witness ==
    \E w \in Workers :
        /\ Done(w) /\ frames[w].route = "detect" /\ ~frames[w].has_image
        /\ frames[w].grid_form = << "abc" >>
        /\ frames[w].response.status = 400

Unparseable(f) == f.grid_form # << >> /\ f.grid_form[1] \notin DOMAIN IntLiterals

\* C7: a /detect request with an image and a grid_size that is no integer is
\* reported with a 4xx status and a message, without running any
\* classification.
C7_BadGridIsClientError ==
    \A w \in Workers :
        ( /\ Done(w) /\ frames[w].route = "detect" /\ frames[w].has_image
          /\ Unparseable(frames[w]) ) =>
            /\ frames[w].response.status \in 400..499
            /\ frames[w].response.error # ""
            /\ frames[w].inferences = 0

\* The upload of worker w was handed to the decoder and refused.
DecodeFailed(w) == frames[w].decodes >= 1 /\ ~frames[w].upload.valid

\* An invocation of the network by worker w failed.
InferenceFailed(w) == frames[w].fault_at >= 1

\* The frame of a request served alone: the handler's steps run back to back
\* on a fresh frame, the network failing at the same invocation (fault_at, 0
\* for none).
StepAlone(f, fault_at) ==
    CASE f.pc = "health" -> health(f, PretrainedWeights)
      [] f.pc = "test" -> test(f, PretrainedWeights)
      [] f.pc = "classify" -> ClassifyEntry(f)
      [] f.pc = "classify_call" ->
            ClassifyCall(f, "CLIPProcessor", PretrainedWeights, fault_at = 1)
      [] f.pc = "detect" -> DetectEntry(f)
      [] f.pc = "detect_parse" -> DetectParseGrid(f)
      [] f.pc = "detect_open" -> DetectOpen(f)
      [] f.pc = "detect_loop" /\ f.row < f.grid_size ->
            DetectTile(f, "CLIPProcessor", PretrainedWeights, f.inferences + 1 = fault_at)
      [] f.pc = "detect_loop" /\ f.row >= f.grid_size -> DetectReturn(f)

RECURSIVE RunAlone(_, _)
RunAlone(f, fault_at) ==
    IF f.pc = "done" THEN f ELSE RunAlone(StepAlone(f, fault_at), fault_at)

RequestOf(f) == Request(f.route, f.has_image, f.upload, f.grid_form)

\* str(e) of the exception that reaches the handler of worker w.
FailureMessage(w) ==
    CASE frames[w].route = "classify" /\ DecodeFailed(w) ->
            "Classification error: cannot identify image file"
      [] frames[w].route = "classify" /\ ~DecodeFailed(w) ->
            "Classification error: model runtime failure"
      [] frames[w].route = "detect" /\ DecodeFailed(w) ->
            "Detection error: cannot identify image file"
      [] frames[w].route = "detect" /\ ~DecodeFailed(w) ->
            "Detection error: Classification error: model runtime failure"

\* C8: when decoding or inference fails in /classify or /detect, on any tile,
\* the request is answered with status 500, success = false and the
\* exception's message, without any result list; and after a failure the
\* globals are as the startup left them and every later request gets the
\* response it would get from a server that has just started.
C8_FailureIs500 ==
    /\ \A w \in Workers :
        ( /\ Done(w) /\ frames[w].route \in { "classify", "detect" }
          /\ (DecodeFailed(w) \/ InferenceFailed(w)) ) =>
            /\ frames[w].response.status = 500
            /\ frames[w].response.keys = { "success", "error" }
            /\ frames[w].response.success = FALSE
            /\ frames[w].response.results = << >>
            /\ frames[w].response.detections = << >>
            /\ frames[w].response.error = FailureMessage(w)
    /\ had_failure =>
        /\ main_pc = "serving"
        /\ model = PretrainedWeights
        /\ processor = "CLIPProcessor"
        /\ \A w \in Workers :
              /\ frames[w].pc = "idle" => frames[w] = IdleFrame
              /\ Done(w) =>
                    frames[w].response
                        = RunAlone(NewFrame(RequestOf(frames[w])), frames[w].fault_at).response

\* A /detect request whose second or later tile failed in the network after
\* an earlier tile had produced a detection.
C8_Witness ==
    \E w \in Workers :
        /\ Done(w) /\ frames[w].route = "detect"
        /\ frames[w].fault_at >= 2
        /\ Len(frames[w].detections) >= 1
        /\ frames[w].response.status = 500

\* C9: the listener accepts requests only after load_model has set processor
\* and model; if loading fails no request is ever handled; load_model runs at
\* most once.
C9_LoadBeforeServe ==
    /\ load_calls <= 1
    /\ main_pc = "serving" =>
          model # None /\ processor = "CLIPProcessor" /\ load_result /\ load_calls = 1
    /\ (\E w \in Workers : frames[w].pc # "idle") =>
          main_pc = "serving" /\ model # None /\ processor = "CLIPProcessor"
    /\ (main_pc \in { "load_returned", "exited" } /\ ~load_result) =>
          /\ \A w \in Workers : frames[w] = IdleFrame
          /\ ~had_failure
          /\ model = None
    /\ main_pc = "exited" => ~load_result

\* A request is being handled by the worker.
C9_Witness ==
    \E w \in Workers :
        /\ frames[w].pc = "classify_call"
        /\ main_pc = "serving" /\ load_calls = 1

\* C10: once the server is up no handler changes the model or the processor,
\* and under every interleaving of the workers' steps each request gets the
\* response it would get served alone.
C10_Isolation ==
    /\ main_pc = "serving" => (model = PretrainedWeights /\ processor = "CLIPProcessor")
    /\ \A w \in Workers :
          Done(w) =>
              frames[w].response
                  = RunAlone(NewFrame(RequestOf(frames[w])), frames[w].fault_at).response

\* Two /detect requests in flight: one has finished with detections while the
\* other is in the middle of its tiles.
C10_Witness ==
    \E w, v \in Workers :
        /\ w # v
        /\ DetectedOk(w) /\ Len(frames[w].response.detections) >= 1
        /\ frames[v].pc = "detect_loop" /\ Len(frames[v].crops) >= 1
        /\ frames[v].detections # frames[w].detections

====
